---- MODULE Spec2Model ----
(***************************************************************************)
(* Session registry and per-session clock/concurrency engine of app.py.   *)
(*                                                                         *)
(* The server runs Flask-SocketIO in threading mode: every socket event    *)
(* handler, the timeout watcher and every bot task is a thread.  A thread  *)
(* is a record with the handler it runs (op), the source line it is about  *)
(* to execute (pc) and its local variables.  One step of the model is one  *)
(* source statement of app.py; a `with g["lock"]` entry is taken together  *)
(* with the first statement of its block and the exit together with the    *)
(* last one.  Wall-clock time (time.time()) is the integer variable now.   *)
(*                                                                         *)
(* The rules oracle (python-chess) is abstracted to a board record: the    *)
(* number of plies pushed and the terminal status of the position.  The    *)
(* persistence layer is not part of the state: each of its calls succeeds  *)
(* or fails nondeterministically.  The variable sent holds what the last   *)
(* statement emitted: socket.io messages, printed errors, exceptions.      *)
(***************************************************************************)
EXTENDS Integers, Sequences, FiniteSets, TLC

\* ---------------------------------------------------------------- bounds
MaxNow == 2        \* time.time() ranges over 0..MaxNow
MaxTC == 1         \* timeControl inputs range over 0..MaxTC
MaxPlies == 2      \* every game ends within MaxPlies plies
MaxGames == 2      \* match dicts referenced at the same time
MaxBoards == 3     \* chess.Board objects referenced at the same time
MaxThreads == 2    \* threads executing handler code at the same time
MaxBots == 1       \* bot tasks started and not yet finished
MaxResets == 1     \* reset-game calls on one match

\* ------------------------------------------------------------- constants
None == "none"
NoRoom == "-"
White == "white"
Black == "black"
Colors == {White, Black}
Rooms == {"R1", "R2"}
Threads == 1..MaxThreads

VARIABLES
    now,        \* time.time()
    rooms,      \* the room identifiers the clients of this run use
    games,      \* app.py:27 games, a dict kept in insertion order: <<[room, gid]>>
    g,          \* the match dicts, by identity: games[room] is g[gid]
    boards,     \* the chess.Board objects, by identity: g[gid]["board"] is boards[bid]
    th,         \* the threads executing handler code
    bots,       \* bot tasks started (app.py:515) and not executing: queued or asleep
    sent        \* what the last step emitted: socket.io messages, exceptions

vars == <<now, rooms, games, g, boards, th, bots, sent>>

Other(c) == IF c = White THEN Black ELSE White

Min(a, b) == IF a < b THEN a ELSE b

Max(a, b) == IF a > b THEN a ELSE b

\* ------------------------------------------------------------ the oracle
\* chess.Board(): the initial position, White to move.
NewBoard == [plies |-> 0, over |-> None]

\* board.turn
Turn(b) == IF b.plies % 2 = 0 THEN White ELSE Black

\* The positions a legal move can lead to: still open, checkmate, or a draw
\* by rule (stalemate, insufficient material, repetition, fifty moves).
MoveResults(b) == IF b.plies + 1 < MaxPlies THEN {None, "mate", "draw"} ELSE {"mate", "draw"}

\* board.legal_moves is empty in a finished position
HasLegalMoves(b) == b.over = None

\* board.is_game_over()
IsGameOver(b) == b.over # None

\* ------------------------------------------------------------ the registry
\* `room in games`
HasRoom(room) == \E i \in 1..Len(games) : games[i].room = room

\* a registry that hands out one match for every room
LookupShared(room) == IF HasRoom(room) THEN games[1].gid ELSE 0

\* games[room], 0 when the key is absent (KeyError)
Lookup(room) ==
    IF HasRoom(room) THEN (CHOOSE e \in {games[i] : i \in 1..Len(games)} : e.room = room).gid ELSE 0

\* games[room] = value: an existing key keeps its place, a new key goes last
Store(room, gid) ==
    IF HasRoom(room)
    THEN [i \in 1..Len(games) |-> IF games[i].room = room THEN [room |-> room, gid |-> gid] ELSE games[i]]
    ELSE Append(games, [room |-> room, gid |-> gid])

\* del games[room]
Remove(room) == SelectSeq(games, LAMBDA e : e.room # room)

\* ------------------------------------------------------------ threads
Idle == [op |-> "idle", pc |-> 0, room |-> NoRoom, gid |-> 0, bid |-> 0,
         hb |-> 0, t0 |-> 0, el |-> 0, nt |-> 0, turn |-> None, arg |-> None, snap |-> <<>>,
         fin |-> FALSE, pre |-> <<>>]

\* the lowest idle slot: a new thread
Free(t) == th[t].op = "idle" /\ \A u \in Threads : u < t => th[u].op # "idle"

At(t, op, pc) == th[t].op = op /\ th[t].pc = pc

\* the match dict object a thread holds in its local g
G(t) == g[th[t].gid]

\* `with g["lock"]:` can be entered
LockFree(t) == G(t).lock = 0

\* ghost counters saturate
Sat(n) == Min(n + 1, 2)

\* ------------------------------------------------------------ the heap
\* A match dict or a board that nothing refers to any more is freed (CPython
\* counts references); its slot reads as DeadGame / NewBoard.
DeadGame ==
    [board |-> 0, black |-> FALSE, whiteTime |-> 0, blackTime |-> 0,
     lastUpdate |-> 0, winner |-> None, reason |-> None, bot |-> FALSE,
     draw_offer |-> None, lock |-> 0, moveCount |-> 0,
     timeControl |-> 0, toRec |-> 0, toBc |-> 0, resets |-> 0]

RefG(games2, th2, bots2) ==
    ({games2[i].gid : i \in 1..Len(games2)}
        \cup {th2[t].gid : t \in Threads}
        \cup UNION {{th2[t].snap[k].gid : k \in 1..Len(th2[t].snap)} : t \in Threads}
        \cup {b.gid : b \in bots2}) \ {0}

RefB(g2, th2) ==
    ({g2[i].board : i \in 1..MaxGames} \cup {th2[t].bid : t \in Threads}
        \cup {th2[t].hb : t \in Threads}) \ {0}

\* the next state of the registry, the heap, the threads and the bot tasks,
\* and what the statement emits
CommitSend(games2, g2, boards2, th2, bots2, msgs) ==
    LET g3 == [i \in 1..MaxGames |-> IF i \in RefG(games2, th2, bots2) THEN g2[i] ELSE DeadGame]
    IN  /\ games' = games2
        /\ g' = g3
        /\ boards' = [b \in 1..MaxBoards |-> IF b \in RefB(g3, th2) THEN boards2[b] ELSE NewBoard]
        /\ th' = th2
        /\ bots' = bots2
        /\ sent' = msgs

\* a statement that emits nothing
Commit(games2, g2, boards2, th2, bots2) == CommitSend(games2, g2, boards2, th2, bots2, {})

\* emit(ev, ...) answers the client whose event is handled
ToCaller(ev) == [ev |-> ev, to |-> "caller"]

\* emit("error", {"message": msg})
Error(msg) == [ev |-> "error", to |-> "caller", msg |-> msg]

\* socketio.emit(ev, ..., room=room) goes to the participants of the room
ToRoom(ev) == [ev |-> ev, to |-> "room"]

\* an exception that leaves the handler or the background task
Uncaught == [ev |-> "exception", to |-> "server"]

\* an exception caught and printed (timeout_watcher, app.py:616-617)
Caught == [ev |-> "exception", to |-> "log"]

\* the error of a failed database call, printed by the database layer
\* (simple_database.py:35)
DbFailed == [ev |-> "db_error", to |-> "log"]

\* what a persistence call prints
DbLog(fails) == IF fails THEN {DbFailed} ELSE {}

\* a persistence call with no try/except around it
DbUnguarded(fails) == fails

\* whether a failed persistence call raises into the statements after it:
\* create_game, update_game_move, end_game and abandon_game catch every
\* exception and return None or False, and each call in app.py is inside
\* try/except Exception
DbRaises(fails) == FALSE

\* free slots for a new match dict and a new board
FreeG == (1..MaxGames) \ RefG(games, th, bots)

FreeB == (1..MaxBoards) \ RefB(g, th)

Lowest(S) == CHOOSE x \in S : \A y \in S : x <= y

Goto(t, pc) == [th EXCEPT ![t].pc = pc]

Finish(t) == [th EXCEPT ![t] = Idle]

Init ==
    /\ now = 0
    /\ rooms = {"R1"}
    /\ games = <<>>
    /\ g = [i \in 1..MaxGames |-> DeadGame]
    /\ boards = [b \in 1..MaxBoards |-> NewBoard]
    /\ th = [t \in Threads |-> Idle]
    /\ bots = {}
    /\ sent = {}

\* time passes
Tick ==
    /\ now < MaxNow
    /\ now' = now + 1
    /\ sent' = {}
    /\ UNCHANGED <<rooms, games, g, boards, th, bots>>

\* --------------------------------------------------------- on_create_room
\* app.py:181-237.  The dict is built and stored under the room key whether or
\* not the key exists.  timeControl and toRec/toBc are not fields of the dict:
\* timeControl keeps the configured time control, toRec/toBc count the timeout
\* outcomes recorded and broadcast since creation or the last reset, resets
\* counts the reset-game calls.
NewGame(bid, tc, isBot) ==
    [board |-> bid, black |-> FALSE, whiteTime |-> tc, blackTime |-> tc,
     lastUpdate |-> now, winner |-> None, reason |-> None, bot |-> isBot,
     draw_offer |-> None, lock |-> 0, moveCount |-> 0,
     timeControl |-> tc, toRec |-> 0, toBc |-> 0, resets |-> 0]

on_create_room(room, tc, isBot) ==
    /\ FreeG # {}
    /\ FreeB # {}
    /\ LET gid == Lowest(FreeG)
           bid == Lowest(FreeB)
       IN  \E fails \in BOOLEAN :
               CommitSend(Store(room, gid),
                          [g EXCEPT ![gid] = NewGame(bid, tc, isBot)],
                          [boards EXCEPT ![bid] = NewBoard],
                          th, bots,
                          IF DbRaises(fails)
                          THEN {DbFailed, Uncaught}
                          ELSE {ToCaller("room_created")} \cup DbLog(fails))
    /\ UNCHANGED <<now, rooms>>

\* ---------------------------------------------------------- on_leave_room
\* app.py:290-306
on_leave_room(room) ==
    /\ HasRoom(room)
    /\ \E fails \in BOOLEAN :
          IF DbRaises(fails)
          THEN CommitSend(games, g, boards, th, bots, {DbFailed, Uncaught})
          ELSE CommitSend(Remove(room), g, boards, th, bots, DbLog(fails))
    /\ UNCHANGED <<now, rooms>>

\* ----------------------------------------------------------- on_join_room
\* app.py:253-256: a bot game cannot be joined
join_253(room) ==
    /\ HasRoom(room)
    /\ g[Lookup(room)].bot
    /\ CommitSend(games, g, boards, th, bots, {Error("Cannot join bot game")})
    /\ UNCHANGED <<now, rooms>>

\* app.py:239-252
join_246(t, room) ==
    /\ Free(t)
    /\ HasRoom(room)
    /\ ~g[Lookup(room)].bot
    /\ Commit(games, g, boards,
              [th EXCEPT ![t] = [Idle EXCEPT !.op = "join", !.pc = 258,
                                             !.room = room, !.gid = Lookup(room)]],
              bots)
    /\ UNCHANGED <<now, rooms>>

\* app.py:258-261: room is full
join_258(t) ==
    /\ At(t, "join", 258)
    /\ IF G(t).black
       THEN CommitSend(games, g, boards, Finish(t), bots, {Error("Room is full")})
       ELSE Commit(games, g, boards, Goto(t, 263), bots)
    /\ UNCHANGED <<now, rooms>>

\* app.py:263-264
join_263(t) ==
    /\ At(t, "join", 263)
    /\ Commit(games, [g EXCEPT ![th[t].gid].black = TRUE], boards, Goto(t, 265), bots)
    /\ UNCHANGED <<now, rooms>>

\* app.py:265-288
join_265(t) ==
    /\ At(t, "join", 265)
    /\ CommitSend(games, [g EXCEPT ![th[t].gid].lastUpdate = now], boards, Finish(t), bots,
                  IF HasRoom(th[t].room)
                  THEN {ToCaller("room_joined"), ToRoom("game_start")}
                  ELSE {Uncaught})
    /\ UNCHANGED <<now, rooms>>

on_join_room(t) ==
    \/ \E room \in rooms : join_246(t, room)
    \/ join_258(t)
    \/ join_263(t)
    \/ join_265(t)

\* -------------------------------------------------------------- clocks
\* g["whiteTime"] / g["blackTime"] of the side `side`
TimeOf(gm, side) == IF side = White THEN gm.whiteTime ELSE gm.blackTime

SetTime(gm, side, v) == IF side = White THEN [gm EXCEPT !.whiteTime = v] ELSE [gm EXCEPT !.blackTime = v]

\* max(0.0, remaining - elapsed)
Debit(remaining, elapsed) == Max(0, remaining - elapsed)

\* a block that is left without releasing the lock
StaysLocked(gm) == gm

\* leaving a `with g["lock"]` block
Unlock(gm) == [gm EXCEPT !.lock = 0]

\* send_game_update(room, move_obj), app.py:137-166: games[room] raises KeyError
\* for a removed room, and board_copy.pop() raises IndexError on a board with
\* no move when a move is given.
SendRaises(room, withMove) ==
    \/ ~HasRoom(room)
    \/ withMove /\ boards[g[Lookup(room)].board].plies = 0

\* what send_game_update(room, move_obj) emits in a handler or a bot task
Update(room, withMove) ==
    IF SendRaises(room, withMove) THEN {Uncaught} ELSE {ToRoom("game_update")}

\* --------------------------------------------------------- timeout_watcher
\* app.py:563-617.  One pass over list(games.items()).
SweepRest(t) ==
    LET rest == Tail(th[t].snap)
    IN  IF rest = <<>> THEN Idle
        ELSE [Idle EXCEPT !.op = "sweep", !.pc = 570, !.snap = rest,
                          !.room = rest[1].room, !.gid = rest[1].gid]

\* app.py:566-568: the snapshot of the registry
sweep_568(t) ==
    /\ Free(t)
    /\ \A u \in Threads : th[u].op # "sweep"
    /\ games # <<>>
    /\ Commit(games, g, boards,
              [th EXCEPT ![t] = [Idle EXCEPT !.op = "sweep", !.pc = 570, !.snap = games,
                                             !.room = games[1].room, !.gid = games[1].gid]],
              bots)
    /\ UNCHANGED <<now, rooms>>

\* app.py:570-572: take the lock; a finished match is skipped
SweepSkips(gm) == gm.winner # None

sweep_570(t) ==
    /\ At(t, "sweep", 570)
    /\ LockFree(t)
    /\ IF SweepSkips(G(t))
       THEN Commit(games, g, boards, [th EXCEPT ![t] = SweepRest(t)], bots)
       ELSE Commit(games, [g EXCEPT ![th[t].gid].lock = t], boards, Goto(t, 574), bots)
    /\ UNCHANGED <<now, rooms>>

\* app.py:574
sweep_574(t) ==
    /\ At(t, "sweep", 574)
    /\ Commit(games, g, boards, [th EXCEPT ![t].pc = 575, ![t].t0 = now], bots)
    /\ UNCHANGED <<now, rooms>>

\* app.py:575
sweep_575(t) ==
    /\ At(t, "sweep", 575)
    /\ Commit(games, g, boards,
              [th EXCEPT ![t].pc = 576, ![t].el = th[t].t0 - G(t).lastUpdate],
              bots)
    /\ UNCHANGED <<now, rooms>>

\* app.py:576-578: board = g["board"]; board.turn
sweep_576(t) ==
    /\ At(t, "sweep", 576)
    /\ Commit(games, g, boards,
              [th EXCEPT ![t].pc = 579, ![t].turn = Turn(boards[G(t).board])], bots)
    /\ UNCHANGED <<now, rooms>>

\* app.py:579 / 597
sweep_579(t) ==
    /\ At(t, "sweep", 579)
    /\ Commit(games, g, boards,
              [th EXCEPT ![t].pc = 580, ![t].nt = Debit(TimeOf(G(t), th[t].turn), th[t].el),
                         ![t].el = 0],
              bots)
    /\ UNCHANGED <<now, rooms>>

\* app.py:580 / 598: the zero crossing
SweepTimesOut(newTime, remaining) == newTime = 0 /\ remaining > 0

sweep_580(t) ==
    /\ At(t, "sweep", 580)
    /\ Commit(games, g, boards,
              IF SweepTimesOut(th[t].nt, TimeOf(G(t), th[t].turn))
              THEN [th EXCEPT ![t].pc = 581, ![t].nt = 0, ![t].t0 = 0]
              ELSE Goto(t, 595),
              bots)
    /\ UNCHANGED <<now, rooms>>

\* app.py:581 / 599
sweep_581(t) ==
    /\ At(t, "sweep", 581)
    /\ Commit(games, [g EXCEPT ![th[t].gid] = SetTime(@, th[t].turn, 0)], boards, Goto(t, 582), bots)
    /\ UNCHANGED <<now, rooms>>

\* app.py:582 / 600
sweep_582(t) ==
    /\ At(t, "sweep", 582)
    /\ Commit(games,
              [g EXCEPT ![th[t].gid].winner = Other(th[t].turn), ![th[t].gid].toRec = Sat(@)],
              boards, Goto(t, 583), bots)
    /\ UNCHANGED <<now, rooms>>

\* app.py:583 / 601
sweep_583(t) ==
    /\ At(t, "sweep", 583)
    /\ \E fails \in BOOLEAN :
          IF DbRaises(fails)
          THEN CommitSend(games, [g EXCEPT ![th[t].gid] = Unlock([@ EXCEPT !.reason = "timeout"])],
                          boards, [th EXCEPT ![t] = SweepRest(t)], bots, {DbFailed, Caught})
          ELSE CommitSend(games, [g EXCEPT ![th[t].gid].reason = "timeout"], boards,
                          Goto(t, 593), bots, DbLog(fails))
    /\ UNCHANGED <<now, rooms>>

\* app.py:593-594 / 611-612: the broadcast, inside the lock; a KeyError is
\* caught at 616 after the lock is released
sweep_593(t) ==
    /\ At(t, "sweep", 593)
    /\ CommitSend(games,
              [g EXCEPT ![th[t].gid] =
                  Unlock(IF SendRaises(th[t].room, FALSE) THEN @ ELSE [@ EXCEPT !.toBc = Sat(@)])],
                  boards, [th EXCEPT ![t] = SweepRest(t)], bots,
                  IF SendRaises(th[t].room, FALSE) THEN {Caught} ELSE {ToRoom("game_update")})
    /\ UNCHANGED <<now, rooms>>

\* app.py:595 / 613
sweep_595(t) ==
    /\ At(t, "sweep", 595)
    /\ Commit(games, [g EXCEPT ![th[t].gid] = SetTime(@, th[t].turn, th[t].nt)], boards,
              [th EXCEPT ![t].pc = 615, ![t].nt = 0], bots)
    /\ UNCHANGED <<now, rooms>>

\* app.py:615
sweep_615(t) ==
    /\ At(t, "sweep", 615)
    /\ Commit(games, [g EXCEPT ![th[t].gid] = Unlock([@ EXCEPT !.lastUpdate = th[t].t0])], boards,
              [th EXCEPT ![t] = SweepRest(t)], bots)
    /\ UNCHANGED <<now, rooms>>

timeout_watcher(t) ==
    \/ sweep_568(t)
    \/ sweep_570(t)
    \/ sweep_574(t)
    \/ sweep_575(t)
    \/ sweep_576(t)
    \/ sweep_579(t)
    \/ sweep_580(t)
    \/ sweep_581(t)
    \/ sweep_582(t)
    \/ sweep_583(t)
    \/ sweep_593(t)
    \/ sweep_595(t)
    \/ sweep_615(t)

\* ------------------------------------------------------------ on_get_time
\* app.py:328-335: the board is read before the lock is taken
time_331(t, room) ==
    /\ Free(t)
    /\ HasRoom(room)
    /\ Commit(games, g, boards,
              [th EXCEPT ![t] = [Idle EXCEPT !.op = "time", !.pc = 337, !.room = room,
                                             !.gid = Lookup(room), !.bid = g[Lookup(room)].board]],
              bots)
    /\ UNCHANGED <<now, rooms>>

\* app.py:337-347: a finished match is answered without the lock
time_337(t) ==
    /\ At(t, "time", 337)
    /\ IF G(t).winner # None
       THEN CommitSend(games, g, boards, Finish(t), bots, {ToCaller("time_update")})
       ELSE Commit(games, g, boards, Goto(t, 349), bots)
    /\ UNCHANGED <<now, rooms>>

\* app.py:349-350
time_349(t) ==
    /\ At(t, "time", 349)
    /\ LockFree(t)
    /\ Commit(games, [g EXCEPT ![th[t].gid].lock = t], boards,
              [th EXCEPT ![t].pc = 351, ![t].t0 = now], bots)
    /\ UNCHANGED <<now, rooms>>

\* app.py:351
time_351(t) ==
    /\ At(t, "time", 351)
    /\ Commit(games, g, boards,
              [th EXCEPT ![t].pc = 352, ![t].el = th[t].t0 - G(t).lastUpdate], bots)
    /\ UNCHANGED <<now, rooms>>

\* app.py:352
time_352(t) ==
    /\ At(t, "time", 352)
    /\ Commit(games, [g EXCEPT ![th[t].gid].lastUpdate = th[t].t0], boards,
              [th EXCEPT ![t].pc = 357, ![t].t0 = 0], bots)
    /\ UNCHANGED <<now, rooms>>

\* app.py:354-357 / 372: the turn of the board read at 335
time_357(t) ==
    /\ At(t, "time", 357)
    /\ LET turn == Turn(boards[th[t].bid])
       IN  Commit(games,
                  [g EXCEPT ![th[t].gid] = SetTime(@, turn, Debit(TimeOf(@, turn), th[t].el))],
                  boards,
                  [th EXCEPT ![t].pc = 358, ![t].turn = turn, ![t].el = 0], bots)
    /\ UNCHANGED <<now, rooms>>

\* app.py:358 / 373
\* the test of line 358 without its `and not g["winner"]`
QueryTimesOutUnguarded(gm, turn) == TimeOf(gm, turn) = 0

QueryTimesOut(gm, turn) == TimeOf(gm, turn) = 0 /\ gm.winner = None

time_358(t) ==
    /\ At(t, "time", 358)
    /\ IF QueryTimesOut(G(t), th[t].turn)
       THEN Commit(games, g, boards, Goto(t, 359), bots)
       ELSE CommitSend(games, [g EXCEPT ![th[t].gid] = Unlock(@)], boards, Finish(t), bots,
                       {ToCaller("time_update")})
    /\ UNCHANGED <<now, rooms>>

\* app.py:359 / 374
time_359(t) ==
    /\ At(t, "time", 359)
    /\ Commit(games,
              [g EXCEPT ![th[t].gid].winner = Other(th[t].turn), ![th[t].gid].toRec = Sat(@)],
              boards, Goto(t, 360), bots)
    /\ UNCHANGED <<now, rooms>>

\* app.py:360 / 375
time_360(t) ==
    /\ At(t, "time", 360)
    /\ \E fails \in BOOLEAN :
          IF DbRaises(fails)
          THEN CommitSend(games, [g EXCEPT ![th[t].gid] = Unlock([@ EXCEPT !.reason = "timeout"])],
                          boards, Finish(t), bots, {DbFailed, Uncaught})
          ELSE CommitSend(games, [g EXCEPT ![th[t].gid].reason = "timeout"], boards,
                          Goto(t, 370), bots, DbLog(fails))
    /\ UNCHANGED <<now, rooms>>

\* app.py:370 / 385, then 387-395: the broadcast, inside the lock
time_370(t) ==
    /\ At(t, "time", 370)
    /\ CommitSend(games,
                  [g EXCEPT ![th[t].gid] =
                      Unlock(IF SendRaises(th[t].room, FALSE) THEN @ ELSE [@ EXCEPT !.toBc = Sat(@)])],
                  boards, Finish(t), bots,
                  IF SendRaises(th[t].room, FALSE)
                  THEN {Uncaught}
                  ELSE {ToRoom("game_update"), ToCaller("time_update")})
    /\ UNCHANGED <<now, rooms>>

on_get_time(t) ==
    \/ \E room \in rooms : time_331(t, room)
    \/ time_337(t)
    \/ time_349(t)
    \/ time_351(t)
    \/ time_352(t)
    \/ time_357(t)
    \/ time_358(t)
    \/ time_359(t)
    \/ time_360(t)
    \/ time_370(t)

\* ------------------------------------------------ update_time_before_move
\* app.py:397-414, called inside the lock by on_move (459) and bot_move (525)
Caller(t) == th[t].op \in {"move", "bot"}

\* app.py:458 / 524 and 399: take the lock, read the time
utbm_399(t) ==
    /\ Caller(t) /\ th[t].pc = 399
    /\ LockFree(t)
    /\ Commit(games, [g EXCEPT ![th[t].gid].lock = t], boards,
              [th EXCEPT ![t].pc = 400, ![t].t0 = now], bots)
    /\ UNCHANGED <<now, rooms>>

\* app.py:400
utbm_400(t) ==
    /\ Caller(t) /\ th[t].pc = 400
    /\ Commit(games, g, boards,
              [th EXCEPT ![t].pc = 401, ![t].el = th[t].t0 - G(t).lastUpdate], bots)
    /\ UNCHANGED <<now, rooms>>

\* app.py:401-403: board = g["board"]; board.turn
utbm_401(t) ==
    /\ Caller(t) /\ th[t].pc = 401
    /\ Commit(games, g, boards,
              [th EXCEPT ![t].pc = 404, ![t].turn = Turn(boards[G(t).board])], bots)
    /\ UNCHANGED <<now, rooms>>

\* app.py:404 / 409
utbm_404(t) ==
    /\ Caller(t) /\ th[t].pc = 404
    /\ Commit(games,
              [g EXCEPT ![th[t].gid] = SetTime(@, th[t].turn, Debit(TimeOf(@, th[t].turn), th[t].el))],
              boards, [th EXCEPT ![t].pc = 405, ![t].el = 0], bots)
    /\ UNCHANGED <<now, rooms>>

\* app.py:405 / 410
MoveTimesOut(gm, turn) == TimeOf(gm, turn) = 0 /\ gm.winner = None

utbm_405(t) ==
    /\ Caller(t) /\ th[t].pc = 405
    /\ Commit(games, g, boards,
              IF MoveTimesOut(G(t), th[t].turn) THEN Goto(t, 406) ELSE Goto(t, 414), bots)
    /\ UNCHANGED <<now, rooms>>

\* app.py:406 / 411
utbm_406(t) ==
    /\ Caller(t) /\ th[t].pc = 406
    /\ Commit(games,
              [g EXCEPT ![th[t].gid].winner = Other(th[t].turn), ![th[t].gid].toRec = Sat(@)],
              boards, Goto(t, 407), bots)
    /\ UNCHANGED <<now, rooms>>

\* app.py:407 / 412
utbm_407(t) ==
    /\ Caller(t) /\ th[t].pc = 407
    /\ Commit(games, [g EXCEPT ![th[t].gid].reason = "timeout"], boards, Goto(t, 414), bots)
    /\ UNCHANGED <<now, rooms>>

\* app.py:414, back to the caller (461 or 526)
utbm_414(t) ==
    /\ Caller(t) /\ th[t].pc = 414
    /\ Commit(games, [g EXCEPT ![th[t].gid].lastUpdate = th[t].t0], boards,
              [th EXCEPT ![t].pc = IF th[t].op = "move" THEN 461 ELSE 526,
                         ![t].t0 = 0, ![t].turn = None],
              bots)
    /\ UNCHANGED <<now, rooms>>

update_time_before_move(t) ==
    \/ utbm_399(t)
    \/ utbm_400(t)
    \/ utbm_401(t)
    \/ utbm_404(t)
    \/ utbm_405(t)
    \/ utbm_406(t)
    \/ utbm_407(t)
    \/ utbm_414(t)

\* ------------------------------------------------ handle_checkmate_and_draw
\* app.py:416-447, called outside the lock by on_move (506) and bot_move (560);
\* then send_game_update(room, mv) at 507 / 561.
\* app.py:418
hcd_418(t) ==
    /\ Caller(t) /\ th[t].pc = 418
    /\ Commit(games, g, boards, [th EXCEPT ![t].pc = 420, ![t].hb = G(t).board], bots)
    /\ UNCHANGED <<now, rooms>>

\* app.py:420, 432-437
hcd_420(t) ==
    /\ Caller(t) /\ th[t].pc = 420
    /\ LET over == boards[th[t].hb].over
       IN  Commit(games, g, boards,
                  IF over = "mate" THEN Goto(t, 421)
                  ELSE IF over = "draw" THEN [th EXCEPT ![t].pc = 438, ![t].hb = 0]
                  ELSE [th EXCEPT ![t].pc = 507, ![t].hb = 0],
                  bots)
    /\ UNCHANGED <<now, rooms>>

\* the side that is to move, which is the side that was mated
MateLoser(b) == Turn(b)

\* app.py:421: the side that is not to move wins
MateWinner(b) == Other(Turn(b))

hcd_421(t) ==
    /\ Caller(t) /\ th[t].pc = 421
    /\ Commit(games, [g EXCEPT ![th[t].gid].winner = MateWinner(boards[th[t].hb])], boards,
              [th EXCEPT ![t].pc = 422, ![t].hb = 0], bots)
    /\ UNCHANGED <<now, rooms>>

\* app.py:422-430
hcd_422(t) ==
    /\ Caller(t) /\ th[t].pc = 422
    /\ \E fails \in BOOLEAN :
          IF DbRaises(fails)
          THEN CommitSend(games, [g EXCEPT ![th[t].gid].reason = "checkmate"], boards,
                          Finish(t), bots, {DbFailed, Uncaught})
          ELSE CommitSend(games, [g EXCEPT ![th[t].gid].reason = "checkmate"], boards,
                          Goto(t, 507), bots, DbLog(fails))
    /\ UNCHANGED <<now, rooms>>

\* app.py:438
hcd_438(t) ==
    /\ Caller(t) /\ th[t].pc = 438
    /\ Commit(games, [g EXCEPT ![th[t].gid].winner = "draw"], boards, Goto(t, 439), bots)
    /\ UNCHANGED <<now, rooms>>

\* app.py:439-447
hcd_439(t) ==
    /\ Caller(t) /\ th[t].pc = 439
    /\ \E fails \in BOOLEAN :
          IF DbRaises(fails)
          THEN CommitSend(games, [g EXCEPT ![th[t].gid].reason = "draw"], boards,
                          Finish(t), bots, {DbFailed, Uncaught})
          ELSE CommitSend(games, [g EXCEPT ![th[t].gid].reason = "draw"], boards,
                          Goto(t, 507), bots, DbLog(fails))
    /\ UNCHANGED <<now, rooms>>

handle_checkmate_and_draw(t) ==
    \/ hcd_418(t)
    \/ hcd_420(t)
    \/ hcd_421(t)
    \/ hcd_422(t)
    \/ hcd_438(t)
    \/ hcd_439(t)

\* ---------------------------------------------------------------- on_move
\* bot tasks started and not finished
BotTasks == Cardinality(bots) + Cardinality({t \in Threads : th[t].op = "bot"})

\* what an illegal move must leave alone: position (and with it the side to
\* move), move counter, pending draw offer and outcome of the match in slot i
Position(i) ==
    [board |-> boards[g[i].board], moveCount |-> g[i].moveCount,
     draw_offer |-> g[i].draw_offer, winner |-> g[i].winner, reason |-> g[i].reason]

\* app.py:449-456: the board is read before the lock is taken.  arg is whether
\* the submitted move is one of the board's legal moves when there are any;
\* fin and pre are what the match was when the command arrived.
move_452(t, room, legal) ==
    /\ Free(t)
    /\ HasRoom(room)
    /\ Commit(games, g, boards,
              [th EXCEPT ![t] = [Idle EXCEPT !.op = "move", !.pc = 399, !.room = room,
                                             !.gid = Lookup(room), !.bid = g[Lookup(room)].board,
                                             !.arg = legal,
                                             !.fin = g[Lookup(room)].winner # None,
                                             !.pre = IF legal = "illegal"
                                                        \/ ~HasLegalMoves(boards[g[Lookup(room)].board])
                                                     THEN <<Position(Lookup(room))>>
                                                     ELSE <<>>]],
              bots)
    /\ UNCHANGED <<now, rooms>>

\* app.py:461-463: a finished match rejects the move
MoveRejects(gm) == gm.winner # None

move_461(t) ==
    /\ At(t, "move", 461)
    /\ IF MoveRejects(G(t))
       THEN CommitSend(games, [g EXCEPT ![th[t].gid] = Unlock(@)], boards, Finish(t), bots,
                       {Error("Game already finished")})
       ELSE Commit(games, g, boards, Goto(t, 483), bots)
    /\ UNCHANGED <<now, rooms>>

\* app.py:484: emit("error", {"message": "Illegal move"})
IllegalBroadcast == {Error("Illegal move"), ToRoom("game_update")}

IllegalReply == {Error("Illegal move")}

\* app.py:465-486: mv not in board.legal_moves
move_483(t) ==
    /\ At(t, "move", 483)
    /\ IF th[t].arg = "legal" /\ HasLegalMoves(boards[th[t].bid])
       THEN Commit(games, g, boards, Goto(t, 488), bots)
       ELSE CommitSend(games, [g EXCEPT ![th[t].gid] = Unlock(@)], boards, Finish(t), bots,
                       IllegalReply)
    /\ UNCHANGED <<now, rooms>>

\* board.push(mv)
Push(b, result) == [plies |-> b.plies + 1, over |-> result]

\* app.py:488
move_488(t) ==
    /\ At(t, "move", 488)
    /\ \E result \in MoveResults(boards[th[t].bid]) :
          Commit(games, g, [boards EXCEPT ![th[t].bid] = Push(@, result)], Goto(t, 489), bots)
    /\ UNCHANGED <<now, rooms>>

\* app.py:489
move_489(t) ==
    /\ At(t, "move", 489)
    /\ Commit(games, [g EXCEPT ![th[t].gid].draw_offer = None], boards, Goto(t, 490), bots)
    /\ UNCHANGED <<now, rooms>>

\* app.py:490-504, leaving the lock
move_490(t) ==
    /\ At(t, "move", 490)
    /\ \E fails \in BOOLEAN :
          IF DbRaises(fails)
          THEN CommitSend(games, [g EXCEPT ![th[t].gid] = Unlock([@ EXCEPT !.moveCount = @ + 1])],
                          boards, Finish(t), bots, {DbFailed, Uncaught})
          ELSE CommitSend(games, [g EXCEPT ![th[t].gid] = Unlock([@ EXCEPT !.moveCount = @ + 1])],
                          boards, Goto(t, 418), bots, DbLog(fails))
    /\ UNCHANGED <<now, rooms>>

\* app.py:507: an exception ends the handler
move_507(t) ==
    /\ At(t, "move", 507)
    /\ CommitSend(games, g, boards,
                  IF SendRaises(th[t].room, TRUE) THEN Finish(t) ELSE Goto(t, 510), bots,
                  Update(th[t].room, TRUE))
    /\ UNCHANGED <<now, rooms>>

\* a server that starts no bot task
StartsNoBot(gm, b) == FALSE

\* app.py:510-515: start the bot task; board is the board read at 456
StartsBot(gm, b) == gm.bot /\ gm.winner = None /\ Turn(b) = Black

move_510(t) ==
    /\ At(t, "move", 510)
    /\ IF StartsBot(G(t), boards[th[t].bid])
       THEN /\ BotTasks < MaxBots
            /\ Commit(games, g, boards, Finish(t),
                      bots \cup {[room |-> th[t].room, gid |-> 0, ph |-> "queued"]})
       ELSE Commit(games, g, boards, Finish(t), bots)
    /\ UNCHANGED <<now, rooms>>

on_move(t) ==
    \/ \E room \in rooms, legal \in {"legal", "illegal"} : move_452(t, room, legal)
    \/ move_461(t)
    \/ move_483(t)
    \/ move_488(t)
    \/ move_489(t)
    \/ move_490(t)
    \/ move_507(t)
    \/ move_510(t)

\* --------------------------------------------------------------- bot_move
\* app.py:517-522: the task starts running
bot_519(t) ==
    /\ Free(t)
    /\ \E b \in bots :
          /\ b.ph = "queued"
          /\ Commit(games, g, boards,
                    IF HasRoom(b.room)
                    THEN [th EXCEPT ![t] = [Idle EXCEPT !.op = "bot", !.pc = 399, !.room = b.room,
                                                        !.gid = Lookup(b.room)]]
                    ELSE th,
                    bots \ {b})
    /\ UNCHANGED <<now, rooms>>

\* a task that sleeps inside its first `with g["lock"]` block
bot_526_holding(t) ==
    /\ At(t, "bot", 526)
    /\ IF G(t).winner # None
       THEN Commit(games, g, boards, Goto(t, 527), bots)
       ELSE Commit(games, g, boards, Finish(t),
                   bots \cup {[room |-> th[t].room, gid |-> th[t].gid, ph |-> "asleep"]})
    /\ UNCHANGED <<now, rooms>>

\* app.py:526-530: a finished match is broadcast; otherwise the lock is left
\* and the task sleeps
bot_526(t) ==
    /\ At(t, "bot", 526)
    /\ IF G(t).winner # None
       THEN Commit(games, g, boards, Goto(t, 527), bots)
       ELSE Commit(games, [g EXCEPT ![th[t].gid] = Unlock(@)], boards, Finish(t),
                   bots \cup {[room |-> th[t].room, gid |-> th[t].gid, ph |-> "asleep"]})
    /\ UNCHANGED <<now, rooms>>

\* app.py:527-528
bot_527(t) ==
    /\ At(t, "bot", 527)
    /\ CommitSend(games, [g EXCEPT ![th[t].gid] = Unlock(@)], boards, Finish(t), bots,
                  Update(th[t].room, FALSE))
    /\ UNCHANGED <<now, rooms>>

\* app.py:530-533: the task wakes, takes the lock and reads the board
bot_532(t) ==
    /\ Free(t)
    /\ \E b \in bots :
          /\ b.ph = "asleep"
          /\ g[b.gid].lock = 0
          /\ Commit(games, [g EXCEPT ![b.gid].lock = t], boards,
                    [th EXCEPT ![t] = [Idle EXCEPT !.op = "bot", !.pc = 534, !.room = b.room,
                                                   !.gid = b.gid, !.bid = g[b.gid].board]],
                    bots \ {b})
    /\ UNCHANGED <<now, rooms>>

\* app.py:534-535: the re-check after the delay
BotAborts(gm, b) == IsGameOver(b) \/ gm.winner # None

bot_534(t) ==
    /\ At(t, "bot", 534)
    /\ IF BotAborts(G(t), boards[th[t].bid])
       THEN Commit(games, [g EXCEPT ![th[t].gid] = Unlock(@)], boards, Finish(t), bots)
       ELSE Commit(games, g, boards, Goto(t, 538), bots)
    /\ UNCHANGED <<now, rooms>>

\* app.py:538-539: a random legal move is pushed
bot_538(t) ==
    /\ At(t, "bot", 538)
    /\ \E result \in MoveResults(boards[th[t].bid]) :
          Commit(games, g, [boards EXCEPT ![th[t].bid] = Push(@, result)], Goto(t, 540), bots)
    /\ UNCHANGED <<now, rooms>>

\* app.py:540
bot_540(t) ==
    /\ At(t, "bot", 540)
    /\ Commit(games, [g EXCEPT ![th[t].gid].lastUpdate = now], boards, Goto(t, 541), bots)
    /\ UNCHANGED <<now, rooms>>

\* app.py:541-558, leaving the lock; an exception of the statements 537-554
\* ends the task at 556-558
bot_541(t) ==
    /\ At(t, "bot", 541)
    /\ \E fails \in BOOLEAN :
          IF DbRaises(fails)
          THEN CommitSend(games, [g EXCEPT ![th[t].gid] = Unlock([@ EXCEPT !.moveCount = @ + 1])],
                          boards, Finish(t), bots, {DbFailed, Caught})
          ELSE CommitSend(games, [g EXCEPT ![th[t].gid] = Unlock([@ EXCEPT !.moveCount = @ + 1])],
                          boards, Goto(t, 418), bots, DbLog(fails))
    /\ UNCHANGED <<now, rooms>>

\* app.py:561
bot_561(t) ==
    /\ At(t, "bot", 507)
    /\ CommitSend(games, g, boards, Finish(t), bots, Update(th[t].room, TRUE))
    /\ UNCHANGED <<now, rooms>>

bot_move(t) ==
    \/ bot_519(t)
    \/ bot_526(t)
    \/ bot_527(t)
    \/ bot_532(t)
    \/ bot_534(t)
    \/ bot_538(t)
    \/ bot_540(t)
    \/ bot_541(t)
    \/ bot_561(t)

\* -------------------------------------------------------------- on_resign
\* app.py:619-626
resign_623(t, room, color) ==
    /\ Free(t)
    /\ HasRoom(room)
    /\ Commit(games, g, boards,
              [th EXCEPT ![t] = [Idle EXCEPT !.op = "resign", !.pc = 627, !.room = room,
                                             !.gid = Lookup(room), !.arg = color,
                                             !.fin = g[Lookup(room)].winner # None]],
              bots)
    /\ UNCHANGED <<now, rooms>>

\* app.py:627-628
ResignReturns(gm) == gm.winner # None

resign_627(t) ==
    /\ At(t, "resign", 627)
    /\ Commit(games, g, boards, IF ResignReturns(G(t)) THEN Finish(t) ELSE Goto(t, 630), bots)
    /\ UNCHANGED <<now, rooms>>

\* app.py:630
resign_630(t) ==
    /\ At(t, "resign", 630)
    /\ Commit(games, [g EXCEPT ![th[t].gid].winner = Other(th[t].arg)], boards, Goto(t, 631), bots)
    /\ UNCHANGED <<now, rooms>>

\* app.py:631-641
resign_631(t) ==
    /\ At(t, "resign", 631)
    /\ \E fails \in BOOLEAN :
          CommitSend(games, [g EXCEPT ![th[t].gid].reason = "resign"], boards, Finish(t), bots,
                     IF DbRaises(fails)
                     THEN {DbFailed, Uncaught}
                     ELSE Update(th[t].room, FALSE) \cup DbLog(fails))
    /\ UNCHANGED <<now, rooms>>

on_resign(t) ==
    \/ \E room \in rooms, color \in Colors : resign_623(t, room, color)
    \/ resign_627(t)
    \/ resign_630(t)
    \/ resign_631(t)

\* ---------------------------------------------------------- on_offer_draw
\* app.py:643-651
offer_648(t, room, color) ==
    /\ Free(t)
    /\ HasRoom(room)
    /\ Commit(games, g, boards,
              [th EXCEPT ![t] = [Idle EXCEPT !.op = "offer", !.pc = 652, !.room = room,
                                             !.gid = Lookup(room), !.arg = color,
                                             !.fin = g[Lookup(room)].winner # None]],
              bots)
    /\ UNCHANGED <<now, rooms>>

\* app.py:652-653
offer_652(t) ==
    /\ At(t, "offer", 652)
    /\ Commit(games, g, boards, IF G(t).winner # None THEN Finish(t) ELSE Goto(t, 655), bots)
    /\ UNCHANGED <<now, rooms>>

\* app.py:655-663
offer_655(t) ==
    /\ At(t, "offer", 655)
    /\ CommitSend(games, [g EXCEPT ![th[t].gid].draw_offer = th[t].arg], boards, Finish(t), bots,
                  {ToRoom("draw_offered")})
    /\ UNCHANGED <<now, rooms>>

on_offer_draw(t) ==
    \/ \E room \in rooms, color \in Colors : offer_648(t, room, color)
    \/ offer_652(t)
    \/ offer_655(t)

\* -------------------------------------------------------- on_respond_draw
\* app.py:665-675
respond_670(t, room, accept) ==
    /\ Free(t)
    /\ HasRoom(room)
    /\ Commit(games, g, boards,
              [th EXCEPT ![t] = [Idle EXCEPT !.op = "respond", !.pc = IF accept THEN 676 ELSE 689,
                                             !.room = room, !.gid = Lookup(room),
                                             !.fin = g[Lookup(room)].winner # None]],
              bots)
    /\ UNCHANGED <<now, rooms>>

\* app.py:676
respond_676(t) ==
    /\ At(t, "respond", 676)
    /\ Commit(games, [g EXCEPT ![th[t].gid].winner = "draw"], boards, Goto(t, 677), bots)
    /\ UNCHANGED <<now, rooms>>

\* app.py:677-687
respond_677(t) ==
    /\ At(t, "respond", 677)
    /\ \E fails \in BOOLEAN :
          CommitSend(games, [g EXCEPT ![th[t].gid].reason = "agreement"], boards, Finish(t), bots,
                     IF DbRaises(fails)
                     THEN {DbFailed, Uncaught}
                     ELSE Update(th[t].room, FALSE) \cup DbLog(fails))
    /\ UNCHANGED <<now, rooms>>

\* app.py:689-691
respond_689(t) ==
    /\ At(t, "respond", 689)
    /\ CommitSend(games, [g EXCEPT ![th[t].gid].draw_offer = None], boards, Finish(t), bots,
                  {ToRoom("draw_declined")})
    /\ UNCHANGED <<now, rooms>>

on_respond_draw(t) ==
    \/ \E room \in rooms, accept \in BOOLEAN : respond_670(t, room, accept)
    \/ respond_676(t)
    \/ respond_677(t)
    \/ respond_689(t)

\* ---------------------------------------------------------- on_reset_game
\* app.py:693-700.  arg remembers whether the match was finished when the
\* reset was requested.
reset_696(t, room) ==
    /\ Free(t)
    /\ HasRoom(room)
    /\ g[Lookup(room)].resets < MaxResets
    /\ Commit(games,
              [g EXCEPT ![Lookup(room)].resets = @ + 1],
              boards,
              [th EXCEPT ![t] = [Idle EXCEPT !.op = "reset", !.pc = 701, !.room = room,
                                             !.gid = Lookup(room),
                                             !.arg = IF g[Lookup(room)].winner # None
                                                     THEN "finished" ELSE "active"]],
              bots)
    /\ UNCHANGED <<now, rooms>>

\* app.py:701: time_control = g.get("whiteTime", 300.0)
ResetTimeControl(gm) == gm.whiteTime

reset_701(t) ==
    /\ At(t, "reset", 701)
    /\ \E fails \in BOOLEAN :
          IF DbRaises(fails)
          THEN CommitSend(games, g, boards, Finish(t), bots, {DbFailed, Uncaught})
          ELSE CommitSend(games, g, boards,
                          [th EXCEPT ![t].pc = 721, ![t].nt = ResetTimeControl(G(t))], bots,
                          DbLog(fails))
    /\ UNCHANGED <<now, rooms>>

\* app.py:721-722
reset_721(t) ==
    /\ At(t, "reset", 721)
    /\ FreeB # {}
    /\ LET bid == Lowest(FreeB)
       IN  Commit(games, [g EXCEPT ![th[t].gid].board = bid], [boards EXCEPT ![bid] = NewBoard],
                  Goto(t, 723), bots)
    /\ UNCHANGED <<now, rooms>>

\* app.py:723
reset_723(t) ==
    /\ At(t, "reset", 723)
    /\ Commit(games, [g EXCEPT ![th[t].gid].whiteTime = th[t].nt], boards, Goto(t, 724), bots)
    /\ UNCHANGED <<now, rooms>>

\* app.py:724
reset_724(t) ==
    /\ At(t, "reset", 724)
    /\ Commit(games, [g EXCEPT ![th[t].gid].blackTime = th[t].nt], boards,
              [th EXCEPT ![t].pc = 725, ![t].nt = 0], bots)
    /\ UNCHANGED <<now, rooms>>

\* app.py:725
reset_725(t) ==
    /\ At(t, "reset", 725)
    /\ Commit(games, [g EXCEPT ![th[t].gid].lastUpdate = now], boards, Goto(t, 726), bots)
    /\ UNCHANGED <<now, rooms>>

\* app.py:726: a new game begins, with no timeout recorded or broadcast
reset_726(t) ==
    /\ At(t, "reset", 726)
    /\ Commit(games,
              [g EXCEPT ![th[t].gid].winner = None, ![th[t].gid].toRec = 0, ![th[t].gid].toBc = 0],
              boards, Goto(t, 727), bots)
    /\ UNCHANGED <<now, rooms>>

\* app.py:727
reset_727(t) ==
    /\ At(t, "reset", 727)
    /\ Commit(games, [g EXCEPT ![th[t].gid].reason = None], boards, Goto(t, 728), bots)
    /\ UNCHANGED <<now, rooms>>

\* app.py:728
reset_728(t) ==
    /\ At(t, "reset", 728)
    /\ Commit(games, [g EXCEPT ![th[t].gid].draw_offer = None], boards, Goto(t, 729), bots)
    /\ UNCHANGED <<now, rooms>>

\* app.py:729-731
reset_729(t) ==
    /\ At(t, "reset", 729)
    /\ CommitSend(games, [g EXCEPT ![th[t].gid].moveCount = 0], boards, Finish(t), bots,
                  Update(th[t].room, FALSE))
    /\ UNCHANGED <<now, rooms>>

on_reset_game(t) ==
    \/ \E room \in rooms : reset_696(t, room)
    \/ reset_701(t)
    \/ reset_721(t)
    \/ reset_723(t)
    \/ reset_724(t)
    \/ reset_725(t)
    \/ reset_726(t)
    \/ reset_727(t)
    \/ reset_728(t)
    \/ reset_729(t)

\* ------------------------------------------------- commands for no room
\* the session commands, each of which starts with `if room not in games`
Requests == {"join", "targets", "time", "move", "resign", "offer", "respond", "reset"}

\* the line after the test `room not in games` of the handler
NotFoundLine(op) ==
    CASE op = "join" -> 247
      [] op = "targets" -> 314
      [] op = "time" -> 332
      [] op = "move" -> 453
      [] op = "resign" -> 624
      [] op = "offer" -> 649
      [] op = "respond" -> 671
      [] op = "reset" -> 697

\* app.py:246, 313, 331, 452, 623, 648, 670, 696: the room is not in games
unknown_room(t, op, room) ==
    /\ Free(t)
    /\ ~HasRoom(room)
    /\ Commit(games, g, boards,
              [th EXCEPT ![t] = [Idle EXCEPT !.op = op, !.pc = NotFoundLine(op), !.room = room]],
              bots)
    /\ UNCHANGED <<now, rooms>>

\* app.py:247-249: join_room answers with an error; 314, 332, 453, 624, 649,
\* 671, 697: the other handlers return
room_not_in_games(t) ==
    /\ th[t].op \in Requests
    /\ th[t].pc = NotFoundLine(th[t].op)
    /\ CommitSend(games, g, boards, Finish(t), bots,
                  IF th[t].op = "join" THEN {Error("Room does not exist")} ELSE {})
    /\ UNCHANGED <<now, rooms>>

\* ------------------------------------------------------------------ Spec
\* create-room for a room identifier that is not in the registry
CreateFresh ==
    \E room \in rooms, tc \in 0..MaxTC, isBot \in BOOLEAN :
        ~HasRoom(room) /\ on_create_room(room, tc, isBot)

CreateAny ==
    \E room \in rooms, tc \in 0..MaxTC, isBot \in BOOLEAN : on_create_room(room, tc, isBot)

Leave == \E room \in rooms : on_leave_room(room)

\* every handler, the watcher and the bot tasks, up to MaxThreads at a time
Next ==
    \/ Tick
    \/ CreateAny
    \/ Leave
    \/ \E t \in Threads : on_join_room(t)
    \/ \E t \in Threads : timeout_watcher(t)
    \/ \E t \in Threads : on_get_time(t)
    \/ \E t \in Threads : update_time_before_move(t)
    \/ \E t \in Threads : handle_checkmate_and_draw(t)
    \/ \E t \in Threads : on_move(t)
    \/ \E t \in Threads : bot_move(t)
    \/ \E t \in Threads : on_resign(t)
    \/ \E t \in Threads : on_offer_draw(t)
    \/ \E t \in Threads : on_respond_draw(t)
    \/ \E t \in Threads : on_reset_game(t)

Spec == Init /\ [][Next]_vars

\* a match played by a human against the bot or another human, with
\* resignations and draw responses racing the moves
NextPlay ==
    \/ CreateFresh
    \/ \E t \in Threads : update_time_before_move(t)
    \/ \E t \in Threads : handle_checkmate_and_draw(t)
    \/ \E t \in Threads : on_move(t)
    \/ \E t \in Threads : bot_move(t)
    \/ \E t \in Threads : on_resign(t)
    \/ \E t \in Threads : on_respond_draw(t)

SpecPlay == Init /\ [][NextPlay]_vars

\* the three timeout paths (watcher, clock query, move submission) racing
\* each other on the running clock
NextTimeout ==
    \/ Tick
    \/ CreateFresh
    \/ \E t \in Threads : timeout_watcher(t)
    \/ \E t \in Threads : on_get_time(t)
    \/ \E t \in Threads : update_time_before_move(t)
    \/ \E t \in Threads : handle_checkmate_and_draw(t)
    \/ \E t \in Threads : on_move(t)

SpecTimeout == Init /\ [][NextTimeout]_vars

\* matches played, queried, resigned and reset by one client call at a time
NextRematch ==
    \/ Tick
    \/ CreateFresh
    \/ \E t \in {1} : on_get_time(t)
    \/ \E t \in {1} : update_time_before_move(t)
    \/ \E t \in {1} : handle_checkmate_and_draw(t)
    \/ \E t \in {1} : on_move(t)
    \/ \E t \in {1} : on_resign(t)
    \/ \E t \in {1} : on_reset_game(t)

SpecRematch == Init /\ [][NextRematch]_vars

\* the registry: rooms created (also under an identifier already in use),
\* joined, played and left, one client call at a time
NextRegistry ==
    \/ CreateAny
    \/ Leave
    \/ \E t \in {1} : on_join_room(t)
    \/ \E t \in {1} : update_time_before_move(t)
    \/ \E t \in {1} : handle_checkmate_and_draw(t)
    \/ \E t \in {1} : on_move(t)

SpecRegistry == Init /\ [][NextRegistry]_vars

\* the watcher sweeping while a second player takes the black seat
NextSeat ==
    \/ Tick
    \/ CreateFresh
    \/ \E t \in Threads : on_join_room(t)
    \/ \E t \in Threads : timeout_watcher(t)

SpecSeat == Init /\ [][NextSeat]_vars

\* a resignation arriving while a clock query runs
NextResign ==
    \/ Tick
    \/ CreateFresh
    \/ \E t \in Threads : on_get_time(t)
    \/ \E t \in Threads : on_resign(t)

SpecResign == Init /\ [][NextResign]_vars

\* a reset arriving while a move submission runs
NextReset ==
    \/ Tick
    \/ CreateFresh
    \/ \E t \in {1} : update_time_before_move(t)
    \/ \E t \in {1} : handle_checkmate_and_draw(t)
    \/ \E t \in {1} : on_move(t)
    \/ \E t \in {2} : on_reset_game(t)

SpecReset == Init /\ [][NextReset]_vars

\* a match on which no client acts: only the watcher and the time
NextIdle ==
    \/ Tick
    \/ CreateFresh
    \/ \E t \in Threads : timeout_watcher(t)

SpecIdle ==
    /\ Init
    /\ [][NextIdle]_vars
    /\ WF_vars(Tick)
    /\ WF_vars(\E t \in Threads : timeout_watcher(t))

\* the commands of a match (move, resign, draw offer, draw response) and the
\* commands for a room that does not exist, one client call at a time, while
\* time passes
NextSession ==
    \/ Tick
    \/ CreateFresh
    \/ \E t \in {1} : update_time_before_move(t)
    \/ \E t \in {1} : handle_checkmate_and_draw(t)
    \/ \E t \in {1} : on_move(t)
    \/ \E t \in {1} : on_resign(t)
    \/ \E t \in {1} : on_offer_draw(t)
    \/ \E t \in {1} : on_respond_draw(t)
    \/ \E t \in {1}, op \in Requests, room \in Rooms : unknown_room(t, op, room)
    \/ \E t \in {1} : room_not_in_games(t)

SpecSession == Init /\ [][NextSession]_vars

\* a room left while a move submission is under way
NextLeave ==
    \/ CreateFresh
    \/ Leave
    \/ \E t \in {1} : update_time_before_move(t)
    \/ \E t \in {1} : handle_checkmate_and_draw(t)
    \/ \E t \in {1} : on_move(t)

SpecLeave == Init /\ [][NextLeave]_vars

\* moves of the human players and of the bot, one call or task at a time
NextMoves ==
    \/ CreateFresh
    \/ \E t \in {1} : update_time_before_move(t)
    \/ \E t \in {1} : handle_checkmate_and_draw(t)
    \/ \E t \in {1} : on_move(t)
    \/ \E t \in {1} : bot_move(t)

SpecMoves == Init /\ [][NextMoves]_vars

\* a bot match played and reset while the bot task is queued or asleep, one
\* call or task at a time
NextStale ==
    \/ CreateFresh
    \/ \E t \in {1} : update_time_before_move(t)
    \/ \E t \in {1} : handle_checkmate_and_draw(t)
    \/ \E t \in {1} : on_move(t)
    \/ \E t \in {1} : bot_move(t)
    \/ \E t \in {1} : on_reset_game(t)

SpecStale == Init /\ [][NextStale]_vars

\* time passes only once the room exists, so that the match is created at
\* time 0
TickLive == (\E room \in rooms : HasRoom(room)) /\ Tick

\* a match created at time 0, then joined, queried and swept, one call or
\* watcher pass at a time
NextClock ==
    \/ TickLive
    \/ CreateFresh
    \/ \E t \in {1} : on_join_room(t)
    \/ \E t \in {1} : on_get_time(t)
    \/ \E t \in {1} : timeout_watcher(t)

SpecClock == Init /\ [][NextClock]_vars

\* the next statement of the move submission or bot task that thread t is
\* executing
GoesOn(t) ==
    /\ Caller(t)
    /\ on_move(t) \/ bot_move(t) \/ update_time_before_move(t) \/ handle_checkmate_and_draw(t)

\* a bot task starts running (line 519) or wakes from its sleep (line 532)
BotWakes == \E t \in Threads : bot_519(t) \/ bot_532(t)

\* a bot match played with one move submission at a time, under fair
\* scheduling: a thread that has started runs on, a thread that keeps finding
\* the lock free gets it, and a bot task that is due gets to run
NextBot ==
    \/ Tick
    \/ CreateFresh
    \/ \E t \in Threads : (\A u \in Threads : th[u].op # "move") /\ on_move(t)
    \/ \E t \in Threads : GoesOn(t)
    \/ BotWakes

SpecBot ==
    /\ Init
    /\ [][NextBot]_vars
    /\ \A t \in Threads : SF_vars(GoesOn(t))
    /\ SF_vars(BotWakes)

\* two rooms in use
InitPair ==
    /\ now = 0
    /\ rooms = Rooms
    /\ games = <<>>
    /\ g = [i \in 1..MaxGames |-> DeadGame]
    /\ boards = [b \in 1..MaxBoards |-> NewBoard]
    /\ th = [t \in Threads |-> Idle]
    /\ bots = {}
    /\ sent = {}

\* the next statement of the watcher pass, move submission or bot task that
\* thread t is executing
Runs(t) ==
    /\ th[t].op # "idle"
    /\ \/ timeout_watcher(t)
       \/ on_move(t)
       \/ bot_move(t)
       \/ update_time_before_move(t)
       \/ handle_checkmate_and_draw(t)

\* create-room at time 0: a bot match in R1, a two-player match in R2
CreatePair ==
    \E room \in rooms :
        now = 0 /\ ~HasRoom(room) /\ on_create_room(room, MaxTC, room = "R1")

\* two rooms created, swept and left, and moves in R1, one watcher pass, move
\* submission or bot task at a time; a thread that has started runs on
NextSweep ==
    \/ TickLive
    \/ CreatePair
    \/ Leave
    \/ \E t \in {1} : timeout_watcher(t)
    \/ \E t \in {1} : on_move(t) /\ th'[t].room # "R2"
    \/ \E t \in {1} : bot_move(t)
    \/ \E t \in {1} : update_time_before_move(t)
    \/ \E t \in {1} : handle_checkmate_and_draw(t)

SpecSweep ==
    /\ InitPair
    /\ [][NextSweep]_vars
    /\ WF_vars(Runs(1))

\* two two-player matches created at time 0 and swept by the watcher while
\* moves and resignations are submitted in R1, one at a time
NextPair ==
    \/ TickLive
    \/ \E room \in rooms : now = 0 /\ ~HasRoom(room) /\ on_create_room(room, MaxTC, FALSE)
    \/ \E t \in {1} : update_time_before_move(t)
    \/ \E t \in {1} : handle_checkmate_and_draw(t)
    \/ \E t \in {1} : on_move(t) /\ th'[t].room # "R2"
    \/ \E t \in {1} : on_resign(t) /\ th'[t].room # "R2"
    \/ \E t \in {2} : timeout_watcher(t)

SpecPair == InitPair /\ [][NextPair]_vars

\* ---------------------------------------------------------------- claims
\* the match dict in slot i is the one the registry holds under some room
Live(i) == \E k \in 1..Len(games) : games[k].gid = i

\* the step is one of on_reset_game's statements
ResetStep == \E t \in Threads : th[t].op = "reset" /\ th'[t] # th[t]

\* the step is a statement of the bot task of the match in slot i
BotStep(i) == \E t \in Threads : th[t].op = "bot" /\ th[t].gid = i /\ th'[t] # th[t]

\* C1: in every step that is not a statement of reset, a match whose outcome
\* (winner and reason) is recorded keeps the same winner and the same reason.
OutcomeImmutable ==
    [][\A i \in 1..MaxGames :
          (Live(i) /\ ~ResetStep /\ g[i].winner # None /\ g[i].reason # None)
              => (g'[i].winner = g[i].winner /\ g'[i].reason = g[i].reason)]_vars

\* C2: a step that pushes a move on the match's board or increments its move
\* counter is taken only while the match has no winner.
MoveOnlyWhenActive ==
    [][\A i \in 1..MaxGames :
          (Live(i) /\ Live(i)'
             /\ (\/ boards'[g'[i].board].plies > boards[g[i].board].plies
                 \/ g'[i].moveCount > g[i].moveCount))
              => g[i].winner = None]_vars

\* C3: once a resignation is recorded (winner and reason "resign"), no
\* statement of the match's bot task pushes a move, counts a move or changes
\* the winner or the reason.
ResignSurvivesBot ==
    [][\A i \in 1..MaxGames :
          (Live(i) /\ BotStep(i) /\ g[i].reason = "resign" /\ g[i].winner \in Colors)
              => /\ boards'[g'[i].board] = boards[g[i].board]
                 /\ g'[i].moveCount = g[i].moveCount
                 /\ g'[i].winner = g[i].winner
                 /\ g'[i].reason = "resign"]_vars

\* the side to move of the match in slot i
SideToMove(i) == Turn(boards[g[i].board])

\* C4: with the watcher and the clock scheduled fairly and no client acting,
\* a match without winner whose side to move has used up more than its
\* remaining time (whatever the remaining time, 0 included) is eventually
\* recorded as lost on time by the side to move.
SweeperCatchesTimeout ==
    \A i \in 1..MaxGames :
        (Live(i) /\ g[i].winner = None
            /\ now > g[i].lastUpdate + TimeOf(g[i], SideToMove(i)))
          ~> (g[i].reason = "timeout" /\ g[i].winner = Other(SideToMove(i)))

\* C5: between creation and reset a match's timeout outcome is recorded at
\* most once and broadcast at most once, whichever of the watcher, the clock
\* query and the move submission get to the expired clock, and once it is
\* recorded the match has a winner for the other paths to see.
TimeoutOnce ==
    \A i \in 1..MaxGames :
        /\ g[i].toRec <= 1
        /\ g[i].toBc <= 1
        /\ g[i].toRec = 1 => g[i].winner # None

\* a clock query has recorded and broadcast the timeout; a move submission
\* that settled after it is at its winner test and the watcher waits for the
\* lock
TimeoutRaced ==
    \E i \in 1..MaxGames :
        /\ g[i].toRec = 1 /\ g[i].toBc = 1 /\ g[i].reason = "timeout"
        /\ \E t \in Threads : At(t, "move", 461) /\ th[t].gid = i
        /\ \E u \in Threads : At(u, "sweep", 570) /\ th[u].gid = i

\* C6: when reset-game returns from a call made on a finished match, the
\* match has no winner and no reason, a board in the initial position, move
\* counter 0, no draw offer and both clocks at the time control the room was
\* created with.
ResetRestores ==
    [][\A t \in Threads : \A i \in 1..MaxGames :
          (At(t, "reset", 729) /\ th[t].arg = "finished" /\ th[t].gid = i
             /\ th'[t].op = "idle" /\ Live(i)')
              => /\ g'[i].winner = None /\ g'[i].reason = None
                 /\ boards'[g'[i].board] = NewBoard
                 /\ g'[i].moveCount = 0 /\ g'[i].draw_offer = None
                 /\ g'[i].whiteTime = g'[i].timeControl
                 /\ g'[i].blackTime = g'[i].timeControl]_vars

\* what create-room must leave alone in a room that exists: board, clocks,
\* black seat, outcome and move counter
MatchView(room) ==
    LET gm == g[Lookup(room)]
    IN  <<boards[gm.board], gm.whiteTime, gm.blackTime, gm.black, gm.winner, gm.reason,
          gm.moveCount>>

\* C7: a create-room call for a room identifier that is in the registry
\* leaves the room's match (board, clocks, players, outcome, move counter) as
\* it was.
CreateKeepsFirst ==
    [][\A room \in rooms, tc \in 0..MaxTC, isBot \in BOOLEAN :
          (HasRoom(room) /\ on_create_room(room, tc, isBot))
              => MatchView(room)' = MatchView(room)]_vars

\* C8: both remaining times are at least 0, and no step other than a
\* statement of reset makes either of them larger (so a clock at 0 stays 0).
ClocksNeverGrow ==
    [][\A i \in 1..MaxGames :
          (Live(i) /\ Live(i)' /\ ~ResetStep)
              => /\ 0 <= g'[i].whiteTime /\ g'[i].whiteTime <= g[i].whiteTime
                 /\ 0 <= g'[i].blackTime /\ g'[i].blackTime <= g[i].blackTime]_vars

\* no handler, watcher pass or bot task is in the middle of its code
Quiet == \A t \in Threads : th[t].op = "idle"

\* C9: whenever no handler is running and a match's reason is "timeout", its
\* winner is the side that is not to move and the side to move has 0 left.
TimeoutBlamesMover ==
    \A i \in 1..MaxGames :
        (Quiet /\ Live(i) /\ g[i].reason = "timeout")
            => /\ g[i].winner = Other(SideToMove(i))
               /\ TimeOf(g[i], SideToMove(i)) = 0

\* C10: a step that is not a statement of reset changes no remaining time
\* other than that of the side to move.
SettleDebitsMover ==
    [][\A i \in 1..MaxGames : \A c \in Colors :
          (Live(i) /\ Live(i)' /\ ~ResetStep /\ TimeOf(g'[i], c) # TimeOf(g[i], c))
              => c = SideToMove(i)]_vars

\* the fields of the match dict in slot i that export_state shows the clients,
\* with the position of its board and the time of the last clock update
MatchState(i) ==
    [board |-> boards[g[i].board], whiteTime |-> g[i].whiteTime, blackTime |-> g[i].blackTime,
     lastUpdate |-> g[i].lastUpdate, black |-> g[i].black, winner |-> g[i].winner,
     reason |-> g[i].reason, draw_offer |-> g[i].draw_offer, moveCount |-> g[i].moveCount]

\* the commands of a match that the players send
Commands == {"move", "resign", "offer", "respond"}

\* C11: a move, resignation, draw offer or draw response that finds the match
\* finished changes no field of the match in any of its statements, and its
\* last statement emits an error to the caller.
FinishedRejected ==
    [][\A t \in Threads, i \in 1..MaxGames :
          (th[t].op \in Commands /\ th[t].fin /\ th[t].gid = i /\ th'[t] # th[t])
              => /\ MatchState(i)' = MatchState(i)
                 /\ th'[t].op = "idle" => \E m \in sent' : m.ev = "error"]_vars

\* C12: the statement of on_move that rejects a move as illegal (line 483-486)
\* finds board, side to move, move counter, pending draw offer and outcome of
\* the match as they were when the move was submitted, leaves them so, and
\* emits the error to the caller and nothing else.
IllegalLeavesMatch ==
    [][\A t \in Threads, i \in 1..MaxGames :
          (At(t, "move", 483) /\ th[t].pre # <<>> /\ th[t].gid = i /\ th'[t].op = "idle")
              => /\ <<Position(i)>> = th[t].pre
                 /\ <<Position(i)'>> = th[t].pre
                 /\ sent' = {Error("Illegal move")}]_vars

\* an illegal move was just rejected in a match with a move played and a draw
\* offer pending
IllegalRejected ==
    \E i \in 1..MaxGames :
        /\ Live(i) /\ g[i].moveCount > 0 /\ g[i].draw_offer # None /\ g[i].winner = None
        /\ Quiet
        /\ sent = {Error("Illegal move")}

\* C13: whatever the interleaving of the join-room calls on a room, the
\* statement that assigns the black seat (line 263) executes only while the
\* seat is empty, so that at most one call is given the seat.
SeatAssignedOnce ==
    [][\A t \in Threads :
          (At(t, "join", 263) /\ th'[t] # th[t]) => ~G(t).black]_vars

\* C14: no statement of a move submission, a bot move or a watcher pass lets
\* an exception leave the handler or the task, also when leave-room removed
\* the room from the registry after the transition started.
InFlightSurvivesLeave ==
    [][\A t \in Threads :
          (th[t].op \in {"move", "bot", "sweep"} /\ th'[t] # th[t])
              => Uncaught \notin sent']_vars

\* C15: once the handler that recorded a timeout has returned, the timeout has
\* been broadcast to the room: no match is left with a recorded timeout that
\* no game_update announced.
TimeoutAnnounced ==
    \A i \in 1..MaxGames :
        (Quiet /\ Live(i) /\ g[i].toRec > 0) => g[i].toBc > 0

\* C16: the statements of respond-draw that record the draw by agreement
\* execute only on a match without winner that has a draw offer pending, and
\* a decline clears the offer and leaves winner and reason as they are.
DrawNeedsOffer ==
    [][\A t \in Threads, i \in 1..MaxGames :
          (th[t].op = "respond" /\ th[t].gid = i /\ th'[t] # th[t])
              => /\ th[t].pc = 676 => (g[i].winner = None /\ g[i].draw_offer # None)
                 /\ th[t].pc = 689 => /\ g'[i].draw_offer = None
                                      /\ g'[i].winner = g[i].winner
                                      /\ g'[i].reason = g[i].reason]_vars

\* C17: when on_move or bot_move has pushed its move and run the terminal
\* check (it is about to broadcast, line 507 / 561), the match is won by the
\* side that just moved with reason "checkmate" if the position is checkmate,
\* drawn with the reason of a draw by rule if the position is a draw by rule,
\* and without winner and reason otherwise.
TerminalCheckRight ==
    \A t \in Threads :
        (Caller(t) /\ th[t].pc = 507)
            => LET gm == G(t)
                   b == boards[gm.board]
               IN  /\ b.over = "mate" =>
                        /\ gm.winner = (IF b.plies % 2 = 1 THEN White ELSE Black)
                        /\ gm.reason = "checkmate"
                   /\ b.over = "draw" => (gm.winner = "draw" /\ gm.reason = "draw")
                   /\ b.over = None => (gm.winner = None /\ gm.reason = None)

\* the bot has just mated
BotMated ==
    \E t \in Threads :
        /\ th[t].op = "bot" /\ th[t].pc = 507
        /\ boards[G(t).board].over = "mate"
        /\ G(t).winner = Black

\* C18: a statement whose persistence call fails lets no exception leave the
\* handler and sends no error to the client, and the transition goes on: the
\* state broadcast or the creation reply is emitted in the same statement,
\* the room is removed (leave-room), or the handler is at its next statement.
PersistenceBestEffort ==
    [][(DbFailed \in sent') =>
          (/\ Uncaught \notin sent'
           /\ Caught \notin sent'
           /\ \A m \in sent' : m.ev # "error"
           /\ (\/ ToRoom("game_update") \in sent'
               \/ ToCaller("room_created") \in sent'
               \/ Len(games') < Len(games)
               \/ \E t \in Threads : (th'[t] # th[t] /\ th'[t].op # "idle")))]_vars

\* recording the checkmate in the database has just failed and the move
\* submission is about to broadcast the won match
EndGameFailed ==
    /\ DbFailed \in sent
    /\ \E t \in Threads : At(t, "move", 507) /\ G(t).winner \in Colors /\ G(t).reason = "checkmate"

\* C19: a join, move, resignation, draw offer, draw response, clock query,
\* legal-target query or reset for a room that is not in the registry ends
\* with an error emitted to the caller and changes nothing.
UnknownRoomRejected ==
    [][\A t \in Threads :
          (th[t].op \in Requests /\ th[t].pc = NotFoundLine(th[t].op) /\ th'[t].op = "idle")
              => /\ \E m \in sent' : m.ev = "error" /\ m.to = "caller"
                 /\ games' = games /\ g' = g /\ boards' = boards /\ bots' = bots]_vars

\* C20: a step that changes a field of a match in the registry (position,
\* clocks, time of the last update, seat, winner, reason, draw offer, move
\* counter) is a statement of the thread that holds the match's lock.
WritesUnderGuard ==
    [][\A i \in 1..MaxGames :
          (Live(i) /\ Live(i)' /\ MatchState(i)' # MatchState(i))
              => (g[i].lock \in Threads /\ th'[g[i].lock] # th[g[i].lock])]_vars

\* C21: whenever the lock of a match in the registry is free, a board in
\* checkmate or in a draw-rule terminal position has a recorded winner.
TerminalBeforeRelease ==
    \A i \in 1..MaxGames :
        (Live(i) /\ g[i].lock = 0 /\ IsGameOver(boards[g[i].board])) => g[i].winner # None

\* C22: the bot task pushes its move (line 539) only on the board of a match
\* that is still in the registry, has no winner and has black, the bot's
\* colour, to move.
BotMovesOwnSide ==
    [][\A t \in Threads :
          (At(t, "bot", 538) /\ th'[t] # th[t])
              => /\ Live(th[t].gid)
                 /\ G(t).winner = None
                 /\ Turn(boards[th[t].bid]) = Black]_vars

\* C23: a statement that emits a message to the room is executed by a thread
\* that does not hold the lock of its match.
BroadcastOutsideGuard ==
    [][\A t \in Threads :
          (th'[t] # th[t] /\ th[t].gid # 0 /\ \E m \in sent' : m.to = "room")
              => g[th[t].gid].lock # t]_vars

\* C24: in every step that is not a statement of reset, a match that has a
\* winner keeps its two remaining times.
FinishedClocksFrozen ==
    [][\A i \in 1..MaxGames :
          (Live(i) /\ ~ResetStep /\ g[i].winner # None)
              => (g'[i].whiteTime = g[i].whiteTime /\ g'[i].blackTime = g[i].blackTime)]_vars

\* C25: for a match created at time 0, whenever no handler is running and
\* neither clock has reached zero, the time taken off the two clocks since
\* creation equals the time of the last clock update.
ElapsedDebitedOnce ==
    \A i \in 1..MaxGames :
        (Quiet /\ Live(i) /\ g[i].whiteTime > 0 /\ g[i].blackTime > 0)
            => 2 * g[i].timeControl - (g[i].whiteTime + g[i].blackTime) = g[i].lastUpdate

ErrorsIsolated ==
    /\ [][\A t \in Threads :
            (th[t].op \in {"sweep", "bot"} /\ th'[t] # th[t] /\ (Caught \in sent'))
                => /\ g'[th[t].gid].lock # t
                   /\ th[t].op = "sweep" => th'[t] = SweepRest(t)]_vars
    /\ [][\A t \in Threads : (th[t].op = "sweep" /\ th'[t] # th[t]) => Uncaught \notin sent']_vars
    /\ \A i \in 1..MaxGames : (g[i].lock # 0) ~> (g[i].lock = 0)

\* the watcher's broadcast for a removed room has raised, and the watcher is at
\* the next room of its pass
SweepGoesOn == Caught \in sent /\ \E t \in Threads : At(t, "sweep", 570) /\ g[th[t].gid].lock = 0

\* C28: while a bot task sleeps (line 530) it holds no lock: the lock of its
\* match is free or held by a running move submission, clock query or watcher
\* pass.
BotSleepsUnlocked ==
    \A b \in bots :
        b.ph = "asleep" =>
            \/ g[b.gid].lock = 0
            \/ /\ th[g[b.gid].lock].op \in {"move", "time", "sweep"}
               /\ th[g[b.gid].lock].gid = b.gid
               /\ th[g[b.gid].lock].pc # 399

\* a move submission holds the lock of a match whose bot task is asleep
MoveDuringDelay ==
    \E b \in bots, t \in Threads :
        b.ph = "asleep" /\ g[b.gid].lock = t /\ th[t].op = "move" /\ th[t].gid = b.gid

MoveCountMatchesBoard ==
    \A i \in 1..MaxGames :
        (Quiet /\ Live(i)) => g[i].moveCount = boards[g[i].board].plies

\* C31: every game_update broadcast shows a consistent outcome: winner none
\* exactly with reason none, winner white or black only with reason checkmate,
\* timeout or resign, winner draw only with reason draw or agreement.
OutcomeConsistent ==
    [][\A t \in Threads : \A i \in 1..MaxGames :
          (th'[t] # th[t] /\ i = Lookup(th[t].room) /\ (ToRoom("game_update") \in sent'))
              => /\ (g'[i].winner = None) <=> (g'[i].reason = None)
                 /\ g'[i].winner \in Colors => g'[i].reason \in {"checkmate", "timeout", "resign"}
                 /\ g'[i].winner = "draw" => g'[i].reason \in {"draw", "agreement"}]_vars

\* the statements whose step makes the end_game call: the assignment of the
\* reason at app.py:360/375, 422, 439, 583/601, 631 and 677, each followed by
\* end_game(room_to_game_id[room], winner, reason)
EndGameCalls == {360, 422, 439, 583, 631, 677}

\* C32: a thread's statement takes a match from no outcome to a recorded
\* outcome exactly when the thread goes on to the statement that calls
\* end_game for it: no outcome is recorded without the call, and no call is
\* made for an outcome that was already recorded.
EndGameOncePerOutcome ==
    [][\A t \in Threads : \A i \in 1..MaxGames :
          (th'[t] # th[t] /\ i = th[t].gid)
              => ((g[i].winner = None /\ g'[i].winner # None)
                     <=> (th'[t].pc \in EndGameCalls /\ th[t].pc \notin EndGameCalls))]_vars

====
